---- MODULE Spec2Model ----
(***************************************************************************)
(* Pointer-tree binary heap of src/heap.h: Node<T> cells linked by left /  *)
(* right pointers, a Heap<T> holding the root pointer, the node count and  *)
(* the ordering predicate.  Every public member function is one action;    *)
(* the private helpers are operators over a memory record.                 *)
(***************************************************************************)
EXTENDS Integers, Sequences, FiniteSets, TLC

\* Bounds of the model.
MaxNodes == 5          \* nodes the caller allocates and hands to insert
NumVals  == 3          \* element values are 1..NumVals
MaxAfter == 2          \* calls followed after the first undefined access
MaxPos   == 40         \* positions given to the path encoder on its own
MaxDown  == 8          \* nodes of the built heaps that pop_top is run on

EMPTY == 0
DEFAULT_HEAP_SIZE == 0

UNSET == -1            \* a memory cell that has not been read or written yet

NumCells == IF MaxDown > MaxNodes THEN MaxDown ELSE MaxNodes
Nodes == 1..NumCells
Cells == 0..NumCells   \* cell 0 is the memory at the null address
Vals  == 1..NumVals
AllVals == 0..(NumVals + 1)
\* What a read of never-written memory may yield: a value below every element
\* and a value above every element, so that each comparison with it can go
\* either way.
Garbage == {0, NumVals + 1}
Direction == {"L", "R"}
Predicates == {"gt", "lt"}

VARIABLES
  tree,       \* Heap::tree, the root pointer (EMPTY or a node)
  size,       \* Heap::size
  compare,    \* Heap::compare: "gt" is the default a > b, "lt" is a custom a < b
  data,       \* Node::data of every cell
  left,       \* Node::left
  right,      \* Node::right
  released,   \* how many times each node has been passed to delete
  nalloc,     \* nodes created by the caller so far (node ids are 1..nalloc)
  status,     \* "running", "aborted" (assert), "killed" (fault), "destroyed"
  lastop,     \* the member function called last
  fault,      \* how the last call ended: "none", "assert", "segv"
  undefined,  \* TRUE once a call has dereferenced a null pointer
  after,      \* calls made since the first undefined access
  ret,        \* value returned by the last call (UNSET when none)
  ninserts,   \* insert calls that returned
  npops,      \* pop_top calls that returned
  pending,    \* per value: times inserted minus times returned by pop_top
  popped,     \* values returned by pop_top, in order
  mixed,      \* TRUE once an insert returned after some pop_top returned
  log,        \* the predicate evaluations of the last call, in order
  calls,      \* per private routine: its invocations during the last call
  pn,         \* path encoder on its own: the position n given to get_dirlist
  pstack,     \* the stack get_dirlist(pn) returned, as far as not yet drained
  pdrained,   \* the directions popped off pstack so far, in order
  ppos        \* the position reached from 1 by following pdrained (0: not yet encoded)

vars == <<tree, size, compare, data, left, right, released, nalloc, status,
          lastop, fault, undefined, after, ret, ninserts, npops, pending, popped,
          mixed, log, calls, pn, pstack, pdrained, ppos>>

heapvars == <<tree, size, data, left, right, released>>
histvars == <<ninserts, npops, pending, popped, mixed>>
tracevars == <<log, calls>>
pathvars == <<pn, pstack, pdrained, ppos>>

\* The recursive private routines of Heap<T>.
Routines == {"_get_dirlist", "_insert_leaf", "_bubble_up", "pop_leaf",
             "bubble_down"}
NoCalls == [f \in Routines |-> 0]

(***************************************************************************)
(* The memory the member functions work on, as one record.  fault is set   *)
(* by a failed assert, which ends the call; undef is set by an access      *)
(* through a null pointer, which goes to cell 0.  g is what cell 0 holds   *)
(* if nothing has touched it before.                                       *)
(***************************************************************************)
\* The values cell 0 may turn out to hold in a call that, run on memory m,
\* ends with memory r: they matter only if the call reaches cell 0.
Unread(r) == IF r.undef /\ data[0] = UNSET THEN Garbage ELSE {0}

Cur(g) == [tree |-> tree, size |-> size,
           data |-> IF data[0] = UNSET THEN [data EXCEPT ![0] = g] ELSE data,
           left |-> left, right |-> right, released |-> released,
           fault |-> "none", undef |-> undefined,
           log |-> <<>>, calls |-> NoCalls]

Fault(m, f) == [m EXCEPT !.fault = f]

\* Routine f is entered once more.
Entered(m, f) == [m EXCEPT !.calls[f] = @ + 1]


\* An access p->... : undefined when p is null.
Deref(m, p) == IF p = EMPTY THEN [m EXCEPT !.undef = TRUE] ELSE m

\* The ordering predicate stored in the heap, applied to (a, b).
Apply(a, b) == IF compare = "gt" THEN a > b ELSE a < b

\* compare(a, b) is evaluated in routine f at node, a being node's data and b
\* the data of child (cv is child's data when the two are then swapped); l
\* and r are the data of node's two children where bubble_down has read them.
Compared(m, f, node, child, a, b, l, r) ==
  [m EXCEPT !.log = Append(@, [fn |-> f, node |-> node, child |-> child,
                               a |-> a, b |-> b, cv |-> m.data[child],
                               l |-> l, r |-> r,
                               swap |-> Apply(a, b)])]

\* Node<T>::Node(T data): a leaf.
Node(m, n, v) == [m EXCEPT !.data[n] = v, !.left[n] = EMPTY, !.right[n] = EMPTY]

\* Node<T>::get_child
get_child(m, n, d) == IF d = "L" THEN m.left[n] ELSE m.right[n]

\* Node::insert attaching on the other side than the direction given.
node_insert_other_side(m, n, d, c) ==
  IF d = "L" THEN [m EXCEPT !.right[n] = c] ELSE [m EXCEPT !.left[n] = c]

\* Node<T>::insert
node_insert(m, n, d, c) ==
  IF d = "L" THEN [m EXCEPT !.left[n] = c] ELSE [m EXCEPT !.right[n] = c]

\* delete (n): Node<T>::~Node releases the children first, recursively; the
\* storage of n is then gone, so its cell holds nothing any more.
RECURSIVE delete(_, _)
delete(m, n) ==
  IF n = EMPTY THEN m
  ELSE LET m1 == IF m.left[n] # EMPTY THEN delete(m, m.left[n]) ELSE m
           m2 == IF m.right[n] # EMPTY THEN delete(m1, m.right[n]) ELSE m1
       IN  [m2 EXCEPT !.released[n] = @ + 1, !.data[n] = UNSET,
                      !.left[n] = EMPTY, !.right[n] = EMPTY]

\* std::stack<Direction>: a sequence whose head is the top of the stack.
push(s, d) == <<d>> \o s

\* _get_dirlist collecting the directions first-in-first-out.
RECURSIVE get_dirlist_fifo(_, _)
get_dirlist_fifo(n, directions) ==
  IF n < 2 THEN directions
  ELSE get_dirlist_fifo(n \div 2,
                        IF n % 2 = 0 THEN directions \o <<"L">>
                                     ELSE directions \o <<"R">>)

\* Heap<T>::_get_dirlist
RECURSIVE get_dirlist_rec(_, _)
get_dirlist_rec(n, directions) ==
  IF n < 2 THEN directions
  ELSE get_dirlist_rec(n \div 2,
                       IF n % 2 = 0 THEN push(directions, "L")
                                    ELSE push(directions, "R"))

\* Heap<T>::get_dirlist
get_dirlist(n) == get_dirlist_rec(n, <<>>)

\* The invocations of _get_dirlist that get_dirlist(n) makes.
RECURSIVE get_dirlist_calls(_)
get_dirlist_calls(n) == IF n < 2 THEN 1 ELSE 1 + get_dirlist_calls(n \div 2)

\* Heap<T>::_insert_leaf
RECURSIVE insert_leaf_rec(_, _, _, _)
insert_leaf_rec(m, t, to_insert, dirlist) ==
  IF dirlist = <<>> THEN Fault(Entered(m, "_insert_leaf"), "assert")
  ELSE LET direction == Head(dirlist)
           rest      == Tail(dirlist)
           m0        == Deref(Entered(m, "_insert_leaf"), t)
       IN  IF rest = <<>>
           THEN node_insert(m0, t, direction, to_insert)
           ELSE insert_leaf_rec(m0, get_child(m0, t, direction),
                                to_insert, rest)

\* Heap<T>::insert_leaf
insert_leaf(m, node, sz, dirlist) ==
  IF sz = 1 THEN [m EXCEPT !.tree = node]
  ELSE insert_leaf_rec(m, m.tree, node, dirlist)

\* Heap<T>::swap_nodes
swap_nodes(m, a, b) ==
  IF ~(a # EMPTY /\ b # EMPTY) THEN Fault(m, "assert")
  ELSE [m EXCEPT !.data[a] = m.data[b], !.data[b] = m.data[a]]

\* Heap<T>::_bubble_up
RECURSIVE bubble_up_rec(_, _, _)
bubble_up_rec(m, node, dirlist) ==
  IF dirlist = <<>> THEN Fault(Entered(m, "_bubble_up"), "assert")
  ELSE LET direction == Head(dirlist)
           rest      == Tail(dirlist)
           child     == get_child(m, node, direction)
           m0        == Deref(Deref(Entered(m, "_bubble_up"), node), child)
           \* if (compare(root_data, child_data)) swap_nodes(node, child);
           Step(mm)  == LET mc == Compared(mm, "_bubble_up", node, child,
                                           mm.data[node], mm.data[child],
                                           UNSET, UNSET)
                        IN  IF Apply(mm.data[node], mm.data[child])
                            THEN swap_nodes(mc, node, child) ELSE mc
       IN  IF rest = <<>>
           THEN Step(m0)
           ELSE LET m1 == bubble_up_rec(m0, child, rest)
                IN  IF m1.fault # "none" THEN m1 ELSE Step(m1)

\* Heap<T>::bubble_up
bubble_up(m, dirlist) == bubble_up_rec(m, m.tree, dirlist)

\* Heap<T>::pop_leaf: the memory afterwards and the data of the returned Node.
RECURSIVE pop_leaf(_, _, _)
pop_leaf(m, node, dirlist) ==
  IF dirlist = <<>>
  THEN [m |-> Fault(Entered(m, "pop_leaf"), "assert"), data |-> UNSET]
  ELSE LET direction == Head(dirlist)
           rest      == Tail(dirlist)
           child     == get_child(m, node, direction)
           m0        == Deref(Entered(m, "pop_leaf"), node)
       IN  IF rest = <<>>
           THEN [m |-> node_insert(delete(m0, child), node, direction, EMPTY),
                 data |-> m0.data[node]]
           ELSE pop_leaf(m0, child, rest)

\* bubble_down descending into the other child than the one it compared.
RECURSIVE bubble_down_other_child(_, _)
bubble_down_other_child(m, node) ==
  LET m0 == Deref(Entered(m, "bubble_down"), node)
      root_data == m0.data[node]
  IN  IF m0.left[node] = EMPTY THEN m0
      ELSE IF m0.right[node] = EMPTY /\ m0.left[node] # EMPTY
           THEN LET left_data == m0.data[m0.left[node]]
                    mc == Compared(m0, "bubble_down", node, m0.left[node],
                                   root_data, left_data, left_data, UNSET)
                IN  IF Apply(root_data, left_data)
                    THEN swap_nodes(mc, node, m0.left[node]) ELSE mc
      ELSE LET left_data  == m0.data[m0.left[node]]
               right_data == m0.data[m0.right[node]]
               comp_with_root == IF Apply(left_data, right_data)
                                 THEN right_data ELSE left_data
               dir == IF Apply(right_data, left_data) THEN "R" ELSE "L"
               child == get_child(m0, node, dir)
               mc == Compared(m0, "bubble_down", node, child, root_data,
                              comp_with_root, left_data, right_data)
           IN  IF ~Apply(root_data, comp_with_root) THEN mc
               ELSE LET m1 == swap_nodes(mc, node, child)
                    IN  IF m1.fault # "none" THEN m1
                        ELSE bubble_down_other_child(m1, child)

\* Heap<T>::bubble_down
RECURSIVE bubble_down(_, _)
bubble_down(m, node) ==
  LET m0 == Deref(Entered(m, "bubble_down"), node)
      root_data == m0.data[node]
  IN  IF m0.left[node] = EMPTY THEN m0
      ELSE IF m0.right[node] = EMPTY /\ m0.left[node] # EMPTY
           THEN LET left_data == m0.data[m0.left[node]]
                    mc == Compared(m0, "bubble_down", node, m0.left[node],
                                   root_data, left_data, left_data, UNSET)
                IN  IF Apply(root_data, left_data)
                    THEN swap_nodes(mc, node, m0.left[node]) ELSE mc
      ELSE LET left_data  == m0.data[m0.left[node]]
               right_data == m0.data[m0.right[node]]
               comp_with_root == IF Apply(left_data, right_data)
                                 THEN right_data ELSE left_data
               dir == IF Apply(right_data, left_data) THEN "L" ELSE "R"
               child == get_child(m0, node, dir)
               mc == Compared(m0, "bubble_down", node, child, root_data,
                              comp_with_root, left_data, right_data)
           IN  IF ~Apply(root_data, comp_with_root) THEN mc
               ELSE LET m1 == swap_nodes(mc, node, child)
                    IN  IF m1.fault # "none" THEN m1 ELSE bubble_down(m1, child)

(***************************************************************************)
(* How a call ends.  A failed assert aborts the process.  An access        *)
(* through a null pointer is undefined: either the process is killed at    *)
(* the access (protected memory), or the access goes to the memory at      *)
(* address 0 and the call carries on (flat memory).                        *)
(***************************************************************************)
Commit(m) ==
  /\ tree' = m.tree /\ size' = m.size /\ left' = m.left /\ right' = m.right
  /\ released' = m.released
  /\ data' = IF m.undef THEN m.data ELSE [m.data EXCEPT ![0] = data[0]]
  /\ undefined' = m.undef
  /\ log' = m.log /\ calls' = m.calls

\* A member function is called by the program using the heap.
Called ==
  /\ status = "running"
  /\ undefined => after < MaxAfter
  /\ after' = IF undefined THEN after + 1 ELSE 0
  /\ UNCHANGED pathvars

Killed ==
  /\ status' = "killed" /\ fault' = "segv" /\ undefined' = TRUE
  /\ log' = <<>> /\ calls' = NoCalls
  /\ UNCHANGED heapvars

\* The call ran to its end (or to a failed assert) with memory m.
Ran(m) ==
  /\ Commit(m)
  /\ fault' = m.fault
  /\ status' = IF m.fault = "assert" THEN "aborted" ELSE "running"

\* Heap<T>::Heap(), Heap<T>::Heap(compare)
HeapInit ==
  /\ tree = EMPTY
  /\ size = DEFAULT_HEAP_SIZE
  /\ compare \in Predicates
  /\ data = [n \in Cells |-> UNSET]
  /\ left = [n \in Cells |-> EMPTY]
  /\ right = [n \in Cells |-> EMPTY]
  /\ released = [n \in Cells |-> 0]
  /\ nalloc = 0
  /\ status = "running"
  /\ lastop = "construct"
  /\ fault = "none"
  /\ undefined = FALSE
  /\ after = 0
  /\ ret = UNSET
  /\ ninserts = 0
  /\ npops = 0
  /\ pending = [v \in AllVals |-> 0]
  /\ popped = <<>>
  /\ mixed = FALSE
  /\ log = <<>>
  /\ calls = NoCalls

Init ==
  /\ HeapInit
  /\ pn = 0 /\ pstack = <<>> /\ pdrained = <<>> /\ ppos = 0

\* Heap<T>::insert
insert_result(m, node) ==
  LET sz == m.size + 1
      m1 == [m EXCEPT !.size = sz, !.calls["_get_dirlist"] = get_dirlist_calls(sz)]
      dirlist == get_dirlist(sz)
      m2 == insert_leaf(m1, node, sz, dirlist)
  IN  IF m2.fault # "none" THEN m2
      ELSE IF sz > 1 THEN bubble_up(m2, dirlist) ELSE m2

\* The caller creates node nalloc+1 holding v and calls Heap<T>::insert on it.
insert(v) ==
  /\ Called
  /\ nalloc < MaxNodes
  /\ \E g \in Unread(insert_result(Node(Cur(0), nalloc + 1, v), nalloc + 1)) :
       LET node == nalloc + 1
           m == insert_result(Node(Cur(g), node, v), node)
       IN  /\ nalloc' = node
           /\ lastop' = "insert"
           /\ ret' = UNSET
           /\ \/ /\ Ran(m)
                 /\ IF m.fault = "none"
                    THEN /\ ninserts' = ninserts + 1
                         /\ pending' = [pending EXCEPT ![v] = @ + 1]
                         /\ mixed' = (mixed \/ npops > 0)
                         /\ UNCHANGED <<npops, popped>>
                    ELSE UNCHANGED histvars
              \/ /\ m.undef /\ ~undefined
                 /\ Killed
                 /\ UNCHANGED histvars
  /\ UNCHANGED compare

\* Heap<T>::pop_top: the memory after the call and the value it returns.
pop_top_result(m) ==
  IF ~(m.size > 0) THEN [m |-> Fault(m, "assert"), data |-> UNSET]
  ELSE LET m0 == Deref(m, m.tree)
           d  == m0.data[m0.tree]
       IN  IF m0.size = 1
           THEN [m |-> [delete(m0, m0.tree) EXCEPT !.tree = EMPTY], data |-> d]
           ELSE LET dirlist == get_dirlist(m0.size)
                    mg == [m0 EXCEPT !.calls["_get_dirlist"] =
                                        get_dirlist_calls(m0.size)]
                    leaf == pop_leaf(mg, mg.tree, dirlist)
                IN  IF leaf.m.fault # "none" THEN [m |-> leaf.m, data |-> UNSET]
                    ELSE LET m1 == [leaf.m EXCEPT !.size = @ - 1]
                             m2 == [m1 EXCEPT !.data[m1.tree] = leaf.data]
                         IN  [m |-> bubble_down(m2, m2.tree), data |-> d]

pop_top ==
  /\ Called
  /\ npops < MaxNodes
  /\ \E g \in Unread(pop_top_result(Cur(0)).m) :
       LET r == pop_top_result(Cur(g))
       IN  /\ lastop' = "pop_top"
           /\ \/ /\ Ran(r.m)
                 /\ IF r.m.fault = "none"
                    THEN /\ ret' = r.data
                         /\ npops' = npops + 1
                         /\ pending' = [pending EXCEPT ![r.data] = @ - 1]
                         /\ popped' = Append(popped, r.data)
                         /\ UNCHANGED <<ninserts, mixed>>
                    ELSE ret' = UNSET /\ UNCHANGED histvars
              \/ /\ r.m.undef /\ ~undefined
                 /\ Killed
                 /\ ret' = UNSET /\ UNCHANGED histvars
  /\ UNCHANGED <<compare, nalloc>>

\* get_top returning the value below the root when there is one.
get_top_below_root ==
  /\ Called
  /\ IF ~(tree # EMPTY)
     THEN fault' = "assert" /\ status' = "aborted" /\ ret' = UNSET
     ELSE /\ fault' = "none" /\ status' = "running"
          /\ ret' = IF left[tree] # EMPTY THEN data[left[tree]] ELSE data[tree]
  /\ lastop' = "get_top"
  /\ log' = <<>> /\ calls' = NoCalls
  /\ UNCHANGED <<heapvars, histvars, compare, nalloc, undefined>>

\* Heap<T>::get_top
get_top ==
  /\ Called
  /\ IF ~(tree # EMPTY)
     THEN fault' = "assert" /\ status' = "aborted" /\ ret' = UNSET
     ELSE fault' = "none" /\ status' = "running" /\ ret' = data[tree]
  /\ lastop' = "get_top"
  /\ log' = <<>> /\ calls' = NoCalls
  /\ UNCHANGED <<heapvars, histvars, compare, nalloc, undefined>>

\* Heap<T>::get_size
get_size ==
  /\ Called
  /\ ret' = size
  /\ fault' = "none"
  /\ lastop' = "get_size"
  /\ log' = <<>> /\ calls' = NoCalls
  /\ UNCHANGED <<heapvars, histvars, compare, nalloc, status, undefined>>

\* Heap<T>::~Heap
destroy ==
  /\ Called
  /\ Commit(delete(Cur(UNSET), tree))
  /\ status' = "destroyed"
  /\ fault' = "none"
  /\ lastop' = "destroy"
  /\ ret' = UNSET
  /\ UNCHANGED <<histvars, compare, nalloc>>

Next ==
  \/ \E v \in Vals : insert(v)
  \/ pop_top
  \/ get_top
  \/ get_size
  \/ destroy

Spec == Init /\ [][Next]_vars

(***************************************************************************)
(* The path encoder on its own: get_dirlist is given a position, and the   *)
(* stack it returns is drained with stack_pop, each direction being        *)
(* followed from position 1 (L: k -> 2k, R: k -> 2k+1).                    *)
(***************************************************************************)
InitPath ==
  /\ HeapInit
  /\ pn \in 1..MaxPos
  /\ pstack = <<>> /\ pdrained = <<>> /\ ppos = 0

\* Heap<T>::get_dirlist(pn)
encode ==
  /\ ppos = 0
  /\ pstack' = get_dirlist(pn)
  /\ ppos' = 1
  /\ UNCHANGED <<pn, pdrained, heapvars, histvars, tracevars, compare, nalloc, status,
                 lastop, fault, undefined, after, ret>>

\* stack_pop(pstack)
drain ==
  /\ ppos >= 1
  /\ pstack # <<>>
  /\ LET direction == Head(pstack)
     IN  /\ pstack' = Tail(pstack)
         /\ pdrained' = Append(pdrained, direction)
         /\ ppos' = IF direction = "L" THEN 2 * ppos ELSE 2 * ppos + 1
  /\ UNCHANGED <<pn, heapvars, histvars, tracevars, compare, nalloc, status,
                 lastop, fault, undefined, after, ret>>

NextPath ==
  \/ encode
  \/ drain

SpecPath == InitPath /\ [][NextPath]_vars

(***************************************************************************)
(* Heaps of up to MaxDown nodes, taken up where they have just been built: *)
(* n values were inserted into a fresh heap, none of them smaller (under   *)
(* the predicate) than the value at half its position, so that no insert   *)
(* swapped anything and node k sits at position k.  From there on the heap *)
(* is popped and observed.                                                 *)
(***************************************************************************)
\* The evaluations of the insert that made node n the n-th node.
BuiltLog(f, n) ==
  IF n < 2 THEN <<>>
  ELSE [i \in 1..Len(get_dirlist(n)) |->
          LET node == n \div 2^i
              child == n \div 2^(i - 1)
          IN  [fn |-> "_bubble_up", node |-> node, child |-> child,
               a |-> f[node], b |-> f[child], cv |-> f[child],
               l |-> UNSET, r |-> UNSET, swap |-> FALSE]]

InitDown ==
  \E n \in 1..MaxDown : \E f \in [1..n -> Vals] :
    /\ compare \in Predicates
    /\ \A k \in 2..n : ~Apply(f[k \div 2], f[k])
    /\ tree = 1
    /\ size = n
    /\ data = [c \in Cells |-> IF c \in 1..n THEN f[c] ELSE UNSET]
    /\ left = [c \in Cells |-> IF c >= 1 /\ 2 * c <= n THEN 2 * c ELSE EMPTY]
    /\ right = [c \in Cells |->
                  IF c >= 1 /\ 2 * c + 1 <= n THEN 2 * c + 1 ELSE EMPTY]
    /\ released = [c \in Cells |-> 0]
    /\ nalloc = n
    /\ status = "running"
    /\ lastop = "insert"
    /\ fault = "none"
    /\ undefined = FALSE
    /\ after = 0
    /\ ret = UNSET
    /\ ninserts = n
    /\ npops = 0
    /\ pending = [v \in AllVals |-> Cardinality({k \in 1..n : f[k] = v})]
    /\ popped = <<>>
    /\ mixed = FALSE
    /\ log = BuiltLog(f, n)
    /\ calls = [NoCalls EXCEPT
                  !["_get_dirlist"] = get_dirlist_calls(n),
                  !["_insert_leaf"] = Len(get_dirlist(n)),
                  !["_bubble_up"] = Len(get_dirlist(n))]
    /\ pn = 0 /\ pstack = <<>> /\ pdrained = <<>> /\ ppos = 0

NextDown ==
  \/ pop_top
  \/ get_top
  \/ get_size

SpecDown == InitDown /\ [][NextDown]_vars

(***************************************************************************)
(* Derived notions used by the properties.                                 *)
(***************************************************************************)
\* The nodes reachable from n through the child links l and r.
RECURSIVE SubtreeOf(_, _, _)
SubtreeOf(l, r, n) ==
  IF n = EMPTY THEN {} ELSE {n} \cup SubtreeOf(l, r, l[n]) \cup SubtreeOf(l, r, r[n])

Subtree(n) == SubtreeOf(left, right, n)

\* The level-order positions of the nodes of the subtree of n, n being at k.
RECURSIVE Positions(_, _)
Positions(n, k) ==
  IF n = EMPTY THEN {}
  ELSE {k} \cup Positions(left[n], 2 * k) \cup Positions(right[n], 2 * k + 1)

NonDecreasing(s) == \A i \in 1..(Len(s) - 1) : s[i] <= s[i + 1]
NonIncreasing(s) == \A i \in 1..(Len(s) - 1) : s[i] >= s[i + 1]

\* C1: as long as every call was a defined one, get_size() (the size field)
\* equals the number of inserts performed minus the number of pop_top calls
\* performed, also right after the pop_top that removes the last element.
C1_SizeAccounting ==
  (status = "running" /\ ~undefined) => size = ninserts - npops

\* C2: default predicate, all inserts before all pops: once every inserted
\* value has been popped, the pops returned exactly the inserted values, in
\* non-decreasing order.
C2_PopsAscending ==
  (compare = "gt" /\ ~undefined /\ ~mixed /\ npops = ninserts)
    => (NonDecreasing(popped) /\ \A v \in AllVals : pending[v] = 0)

\* C3: default predicate, non-empty heap: pop_top returns what get_top would
\* have returned just before, and that value is a minimum of the values
\* inserted so far and not yet returned by a pop_top.
C3_PopReturnsMinimum ==
  [][(compare = "gt" /\ ~undefined /\ tree # EMPTY
        /\ lastop' = "pop_top" /\ fault' = "none" /\ ~undefined')
       => (/\ ret' = data[tree]
           /\ pending[ret'] > 0
           /\ \A v \in Vals : pending[v] > 0 => ret' <= v)]_vars

\* C4: after inserting v into a fresh heap, get_top() returns v, and the
\* following pop_top() returns v and leaves no root and size 0.
C4_SingleElementRoundTrip ==
  [][(nalloc = 1 /\ ninserts = 1 /\ npops = 0 /\ status = "running")
       => (/\ tree # EMPTY
           /\ pending[data[tree]] = 1
           /\ (lastop' = "get_top" => ret' = data[tree])
           /\ (lastop' = "pop_top"
                 => ret' = data[tree] /\ tree' = EMPTY /\ size' = 0))]_vars

\* C5: predicate a < b, all inserts before all pops: once every inserted
\* value has been popped, the pops returned exactly the inserted values, in
\* non-increasing order.
C5_PopsDescending ==
  (compare = "lt" /\ ~undefined /\ ~mixed /\ npops = ninserts)
    => (NonIncreasing(popped) /\ \A v \in AllVals : pending[v] = 0)

\* C6: after N inserts and M pops the nodes reachable from the root occupy
\* exactly the level-order positions 1..N-M, their number is the size field,
\* and no node has a right child without a left child.
C6_ShapeInvariant ==
  (status = "running" /\ ~undefined)
    => (/\ Positions(tree, 1) = 1..(ninserts - npops)
        /\ Cardinality(Subtree(tree)) = size
        /\ \A n \in Subtree(tree) : right[n] # EMPTY => left[n] # EMPTY)

\* C7: after every completed call, for every node p of the tree with a child
\* c, predicate(p.value, c.value) is false, for a > b and for a < b, also
\* with duplicate values.
C7_OrderInvariant ==
  status = "running"
    => \A p \in Subtree(tree) :
         /\ left[p] # EMPTY => ~Apply(data[p], data[left[p]])
         /\ right[p] # EMPTY => ~Apply(data[p], data[right[p]])

\* A pop_top under a < b has just bubbled down in a tree that still has a
\* two-child root, a grandchild and two equal values.
C7_Witness ==
  /\ status = "running" /\ ~undefined
  /\ lastop = "pop_top" /\ fault = "none" /\ compare = "lt"
  /\ tree # EMPTY /\ left[tree] # EMPTY /\ right[tree] # EMPTY
  /\ left[left[tree]] # EMPTY
  /\ data[tree] # data[left[left[tree]]]
  /\ \E a, b \in Subtree(tree) : a # b /\ data[a] = data[b]

\* C8: on a heap with no element, fresh or emptied by pop_top calls,
\* pop_top() and get_top() stop at their assertion and do not go on to read
\* the root.
C8_FatalOnEmpty ==
  [][(~undefined /\ tree = EMPTY /\ lastop' \in {"pop_top", "get_top"})
       => (fault' = "assert" /\ ~undefined')]_vars

\* C9: when pop_top and get_top are only called while inserts minus pops is
\* at least 1, every call returns without following a null pointer or
\* failing an assertion, and insert increases the size by exactly one.
C9_InsertNeverFails ==
  [][(~undefined
        /\ (lastop' \in {"pop_top", "get_top"} => ninserts - npops >= 1))
       => (/\ ~undefined'
           /\ fault' = "none"
           /\ (lastop' = "insert" => size' = size + 1))]_vars

\* C10: no node is released twice, no released node is reachable from the
\* root, the node pop_top releases has no children when it is released, and
\* once the heap is destroyed every node handed to insert has been released
\* exactly once.
C10_ReleasedExactlyOnce ==
  [][/\ \A n \in Nodes : released'[n] <= 1
     /\ status' = "running"
          => \A n \in SubtreeOf(left', right', tree') : released'[n] = 0
     /\ lastop' = "pop_top"
          => \A n \in Nodes : released'[n] > released[n]
                                => left[n] = EMPTY /\ right[n] = EMPTY
     /\ status' = "destroyed"
          => \A n \in 1..nalloc' : released'[n] = 1]_vars

\* The node at level-order position k of the tree rooted at t (EMPTY if none).
RECURSIVE NodeAtOf(_, _, _, _)
NodeAtOf(l, r, t, k) ==
  IF k = 1 THEN t
  ELSE LET p == NodeAtOf(l, r, t, k \div 2)
       IN  IF p = EMPTY THEN EMPTY ELSE IF k % 2 = 0 THEN l[p] ELSE r[p]

NodeAt(k) == NodeAtOf(left, right, tree, k)

\* How many nodes of the tree rooted at t hold each value.
TreeBagOf(l, r, d, t) ==
  [v \in AllVals |-> Cardinality({n \in SubtreeOf(l, r, t) : d[n] = v})]

\* C11: get_top() and get_size() leave the tree, every node's value and the
\* size field unchanged; get_top() on a non-empty heap returns the value
\* stored in the root, get_size() the size field.
C11_PureObservers ==
  [][lastop' \in {"get_top", "get_size"}
       => (/\ UNCHANGED heapvars
           /\ (lastop' = "get_top" /\ tree # EMPTY)
                => (fault' = "none" /\ ret' = data[tree])
           /\ lastop' = "get_size" => ret' = size)]_vars

\* get_top has just returned on a heap of at least three nodes whose root
\* and left child hold different values.
C11_Witness ==
  /\ lastop = "get_top" /\ fault = "none" /\ ~undefined
  /\ size >= 3 /\ tree # EMPTY /\ left[tree] # EMPTY
  /\ data[left[tree]] # data[tree]
  /\ ret = data[tree]

\* C12: pop_top on a heap of count >= 2 nodes releases the node at
\* level-order position count, and the values stored in the tree afterwards
\* are those stored before minus one occurrence of the returned value.
C12_PopRemovesOnlyTheTop ==
  [][(~undefined /\ tree # EMPTY /\ size >= 2
        /\ lastop' = "pop_top" /\ fault' = "none" /\ ~undefined')
       => (/\ released'[NodeAt(size)] = released[NodeAt(size)] + 1
           /\ TreeBagOf(left', right', data', tree')
                = [TreeBagOf(left, right, data, tree) EXCEPT ![ret'] = @ - 1])]_vars

\* floor(log2 n) and the bit of weight 2^j of n, computed arithmetically.
Log2(n) == CHOOSE k \in 0..n : 2^k <= n /\ n < 2^(k + 1)
Bit(n, j) == (n \div 2^j) % 2

\* C13: for every position n >= 1, draining the stack returned by
\* get_dirlist(n) from its top yields the bits of n after the leading one,
\* most significant first, 0 as Left and 1 as Right; there are floor(log2 n)
\* of them, none for n = 1, and following them from position 1 ends at n.
C13_PathEncoder ==
  ppos >= 1
    => LET path == pdrained \o pstack
       IN  /\ Len(path) = Log2(pn)
           /\ pn = 1 => path = <<>>
           /\ \A i \in 1..Len(path) :
                path[i] = IF Bit(pn, Len(path) - i) = 0 THEN "L" ELSE "R"
           /\ pstack = <<>> => ppos = pn

\* The stack of a position with a Left and a Right step has been drained.
C13_Witness ==
  /\ ppos = pn /\ pn >= 5 /\ pstack = <<>>
  /\ \E i, j \in 1..Len(pdrained) : pdrained[i] = "L" /\ pdrained[j] = "R"

\* The positions of the proper ancestors of position n.
AncestorPos(n) == {n \div 2^j : j \in 1..Log2(n)}

\* The evaluations lg replayed on the node values d: each must have compared
\* the values its two nodes held at that moment and swapped them exactly when
\* the predicate held; d is the values after the last of them.
RECURSIVE Replay(_, _)
Replay(d, lg) ==
  IF lg = <<>> THEN [d |-> d, ok |-> TRUE]
  ELSE LET e  == Head(lg)
           d1 == IF e.swap
                 THEN [d EXCEPT ![e.node] = d[e.child], ![e.child] = d[e.node]]
                 ELSE d
           r  == Replay(d1, Tail(lg))
       IN  [d |-> r.d,
            ok |-> /\ e.a = d[e.node] /\ e.b = d[e.child]
                   /\ e.swap = Apply(e.a, e.b)
                   /\ r.ok]

\* C14: insert(v) attaches the new node at level-order position count (after
\* the increment), which held no node before; no node of the tree is lost,
\* and the values stored in the tree afterwards are those stored before plus
\* one occurrence of v.
C14_InsertAddsOne ==
  [][(~undefined /\ lastop' = "insert")
       => (/\ NodeAt(size + 1) = EMPTY
           /\ NodeAtOf(left', right', tree', size + 1) = nalloc'
           /\ Subtree(tree) \subseteq SubtreeOf(left', right', tree')
           /\ \E v \in Vals :
                TreeBagOf(left', right', data', tree')
                  = [TreeBagOf(left, right, data, tree) EXCEPT ![v] = @ + 1])]_vars

\* C15: an insert at position n >= 2 evaluates the predicate floor(log2 n)
\* times, once per ancestor of the new leaf from its parent up to the root,
\* each time on the current values of the ancestor and of its child on the
\* path, and swaps the two values exactly when the predicate holds.
C15_BubbleUpOrder ==
  [][(~undefined /\ lastop' = "insert" /\ size + 1 >= 2)
       => LET n == size + 1
          IN  /\ Len(log') = Log2(n)
              /\ \A i \in 1..Len(log') :
                   /\ log'[i].fn = "_bubble_up"
                   /\ log'[i].node = NodeAtOf(left', right', tree', n \div 2^i)
                   /\ log'[i].child
                        = NodeAtOf(left', right', tree', n \div 2^(i - 1))
              /\ \E v \in Vals :
                   LET r == Replay([data EXCEPT ![nalloc'] = v], log')
                   IN  r.ok /\ \A x \in Nodes : r.d[x] = data'[x]]_vars

\* C16: when bubble_down, at a node with two children, swaps the node with a
\* child, the value it compared with the node's is that child's value; the
\* child is the one the predicate does not put below its sibling, and the
\* right child when the two children hold equal values.
C16_BubbleDownCandidate ==
  [][\A i \in 1..Len(log') :
       LET e == log'[i]
       IN  (e.fn = "bubble_down" /\ e.r # UNSET /\ e.swap)
             => (/\ e.b = e.cv
                 /\ e.child \in {left'[e.node], right'[e.node]}
                 /\ e.l # e.r
                      => /\ e.child = left'[e.node] <=> Apply(e.r, e.l)
                         /\ compare = "gt" => e.cv < e.l \/ e.cv < e.r
                 /\ e.l = e.r => e.child = right'[e.node])]_vars

\* A pop_top has bubbled down through two nodes with two children: at one
\* the children held equal values and the right one was taken, at the other
\* they differed and the left one was taken.
C16_Witness ==
  /\ lastop = "pop_top" /\ fault = "none" /\ ~undefined
  /\ \E i, j \in 1..Len(log) :
       /\ log[i].fn = "bubble_down" /\ log[i].r # UNSET /\ log[i].swap
       /\ log[i].l = log[i].r
       /\ log[i].child = right[log[i].node]
       /\ log[j].fn = "bubble_down" /\ log[j].r # UNSET /\ log[j].swap
       /\ log[j].l # log[j].r
       /\ log[j].child = left[log[j].node]

\* C17: an insert changes no child link except the one that receives the new
\* leaf (and the root pointer of an empty heap), and no value except at the
\* nodes on the path from the root to the new leaf.
C17_InsertFrame ==
  [][(~undefined /\ lastop' = "insert")
       => LET n == size + 1
              new == nalloc'
              parent == NodeAt(n \div 2)
              OnPath(x) == \E k \in AncestorPos(n) : x = NodeAt(k)
          IN  /\ tree' # tree => (tree = EMPTY /\ tree' = new)
              /\ \A x \in 1..nalloc :
                   /\ left'[x] # left[x]
                        => (left[x] = EMPTY /\ left'[x] = new
                            /\ x = parent /\ n % 2 = 0)
                   /\ right'[x] # right[x]
                        => (right[x] = EMPTY /\ right'[x] = new
                            /\ x = parent /\ n % 2 = 1)
                   /\ data'[x] # data[x] => OnPath(x)
              /\ left'[new] = EMPTY /\ right'[new] = EMPTY]_vars

\* An insert as fifth node has bubbled its value up to the root; node 3 is
\* off its path.
C17_Witness ==
  /\ lastop = "insert" /\ fault = "none" /\ ~undefined
  /\ size = 5 /\ NodeAt(5) = nalloc
  /\ Len(log) = 2 /\ log[1].swap /\ log[2].swap
  /\ NodeAt(3) # EMPTY

\* C18: every insert, and every pop_top on a non-empty heap, returns, and
\* none of the recursive routines is entered more than floor(log2(count)) + 1
\* times in it (count: the size after insert's increment, the size before
\* pop_top's decrement).
C18_Termination ==
  [][(~undefined /\ lastop' \in {"insert", "pop_top"}
        /\ (lastop' = "pop_top" => tree # EMPTY))
       => LET count == IF lastop' = "insert" THEN size + 1 ELSE size
          IN  /\ status' = "running" /\ fault' = "none"
              /\ \A f \in Routines : calls'[f] <= Log2(count) + 1]_vars

====
